---- MODULE Spec2Model ----
(***************************************************************************)
(* Boids flocking simulation: the per-frame pipeline of boid.js            *)
(* (findNeighborsWithinRange, rule1..rule3, boundPosition, limitVelocity,  *)
(* update), the frame loop of main.js (gameLoop) and the UI handlers that  *)
(* write configuration into the flock.                                     *)
(*                                                                         *)
(* Numbers.  JavaScript numbers are modelled in fixed point: a length, a   *)
(* speed, a coefficient or a time step x is the integer x * Scale.  Angles *)
(* are integers in units of PI / (180 * AngleScale).  Timestamps are whole *)
(* milliseconds.  Every product or quotient is rounded once, toward zero.  *)
(***************************************************************************)
EXTENDS Integers, Sequences, FiniteSets, TLC

(***************************************************************************)
(* Bounds of the model.                                                    *)
(***************************************************************************)
Scale == 1000
AngleScale == 10
MaxBoids == 2
MaxFrames == 2
MaxUIOps == 1

(***************************************************************************)
(* Program constants.                                                      *)
(***************************************************************************)
PI == 180 * AngleScale
COHESION_FACTOR == 500
SEPARATION_DISTANCE == 5 * Scale
ALIGNMENT_FACTOR == 90
MAX_SPEED == 3 * Scale
MIN_SPEED == 1 * Scale
RANGE == 150 * Scale
FOV_ANGLE == 250 * AngleScale
FREQUENCY == (6 * Scale) \div 10
AMPLITUDE == 1 * Scale
CANVAS_WIDTH == 200 * Scale
CANVAS_HEIGHT == 200 * Scale
TIME_SCALE == Scale \div 10
MAX_DELTA_T == 50 * Scale

(***************************************************************************)
(* Fixed-point arithmetic.                                                 *)
(***************************************************************************)
Abs(a) == IF a < 0 THEN -a ELSE a
Min(a, b) == IF a < b THEN a ELSE b
Max(a, b) == IF a > b THEN a ELSE b

\* a / b rounded toward zero
Div(a, b) ==
    IF (a >= 0) = (b > 0) THEN Abs(a) \div Abs(b) ELSE -(Abs(a) \div Abs(b))

RECURSIVE SqrtIter(_, _, _)
SqrtIter(n, lo, hi) ==
    IF lo >= hi THEN lo
    ELSE LET mid == (lo + hi + 1) \div 2
         IN  IF mid * mid <= n THEN SqrtIter(n, mid, hi)
             ELSE SqrtIter(n, lo, mid - 1)

\* Math.sqrt on a fixed-point square: the integer square root
Sqrt(n) == SqrtIter(n, 0, Min(n, 46340))

(***************************************************************************)
(* Vector2D (vector.js).                                                   *)
(***************************************************************************)
Vector2D(x, y) == [x |-> x, y |-> y]
Zero == Vector2D(0, 0)

add(v, w) == Vector2D(v.x + w.x, v.y + w.y)
subtract(v, w) == Vector2D(v.x - w.x, v.y - w.y)

magnitude(v) == Sqrt(v.x * v.x + v.y * v.y)

\* scale(num / den): the scaling factor is the quotient num / den
scale(v, num, den) == Vector2D(Div(v.x * num, den), Div(v.y * num, den))

\* a vector whose components are NaN: it has no numeric x and y
NaNVector == [nan |-> TRUE]

\* normalize: coeff = 1 / magnitude() is Infinity for the zero vector and
\* 0 * Infinity is NaN
normalize(v) ==
    IF magnitude(v) = 0 THEN NaNVector
    ELSE Vector2D(Div(v.x * Scale, magnitude(v)), Div(v.y * Scale, magnitude(v)))

\* atan(a / b) for 0 <= a <= b, b > 0: (PI/4) t + 0.273 t (1 - t)
AtanRatio(a, b) ==
    LET k  == IF b > 1000 THEN b \div 1000 + 1 ELSE 1
        aa == a \div k
        bb == b \div k
    IN  Div(PI * aa, 4 * bb)
          + Div(Div(PI * 869, 10000) * aa * (bb - aa), bb * bb)

\* Math.atan2(y, x), in (-PI, PI]
Atan2(y, x) ==
    LET ax   == Abs(x)
        ay   == Abs(y)
        base == IF ax = 0 /\ ay = 0 THEN 0
                ELSE IF ax >= ay THEN AtanRatio(ay, ax)
                ELSE PI \div 2 - AtanRatio(ax, ay)
    IN  IF x >= 0 THEN (IF y >= 0 THEN base ELSE -base)
        ELSE IF y >= 0 THEN PI - base ELSE -(PI - base)

angle(v) == Atan2(v.y, v.x)

angleBetweenVectors(v, w) ==
    LET a == angle(w) - angle(v)
    IN  IF a > PI THEN a - 2 * PI
        ELSE IF a <= -PI THEN a + 2 * PI
        ELSE a

(***************************************************************************)
(* utils.js                                                                *)
(***************************************************************************)
distance2D(p, q) ==
    LET deltaX == q.x - p.x
        deltaY == q.y - p.y
        k == Max(Abs(deltaX), Abs(deltaY)) \div 30000 + 1
    IN  k * Sqrt(Div(deltaX, k) * Div(deltaX, k) + Div(deltaY, k) * Div(deltaY, k))

(***************************************************************************)
(* State.                                                                  *)
(*   flock               world.js: the list of boids, in creation order.   *)
(*                       A boid is a record; its neighbors and the keys of *)
(*                       its neighborDistances are indices into flock.     *)
(*   variationEnabled, variationFrequency, variationAmplitude              *)
(*                       the static fields of class Boid                   *)
(*   isPaused, lastTimestamp   the module variables of main.js             *)
(*   uiIsPaused          UIController.isPaused                             *)
(*   frame, uiOps        number of animation frames run and of parameter   *)
(*                       changes and resets handled so far (bounded by     *)
(*                       MaxFrames, MaxUIOps)                              *)
(*   lastEvent           the callback that ran last: "init", "tick" (a     *)
(*                       frame that updated the flock), "paused" (a frame  *)
(*                       that did not), "ui" (a handler of the UI) or      *)
(*                       "minSpeed" (the Min Speed control was moved)      *)
(*   clock               the DOMHighResTimeStamp (ms) the browser handed   *)
(*                       to the latest animation frame                     *)
(***************************************************************************)
VARIABLES flock, variationEnabled, variationFrequency, variationAmplitude,
          isPaused, lastTimestamp, uiIsPaused, frame, uiOps, lastEvent,
          tempVector, scan, clock

vars == <<flock, variationEnabled, variationFrequency, variationAmplitude,
          isPaused, lastTimestamp, uiIsPaused, frame, uiOps, lastEvent,
          tempVector, scan, clock>>

EmptyMap == [j \in {} |-> 0]
MapSet(m, k, d) == [j \in DOMAIN m \cup {k} |-> IF j = k THEN d ELSE m[j]]

NoForces == [v1 |-> Zero, v2 |-> Zero, v3 |-> Zero, v4 |-> Zero]

(***************************************************************************)
(* class Boid (boid.js).                                                   *)
(***************************************************************************)
\* new Boid({id}): position, velocity and phase are the constructor's
\* Math.random() draws, creationTime its performance.now() reading (ms)
Boid(id, position, velocity, variationPhase, creationTime) ==
    [ id |-> id,
      maxSpeed |-> MAX_SPEED,
      range |-> RANGE,
      leftSideFOV |-> FOV_ANGLE,
      rightSideFOV |-> FOV_ANGLE,
      separationCoefficient |-> Scale,
      cohereCoefficient |-> Scale,
      alignCoefficient |-> Scale,
      neighbors |-> {},
      neighborDistances |-> EmptyMap,
      position |-> position,
      velocity |-> velocity,
      variationPhase |-> variationPhase,
      creationTime |-> creationTime,
      \* the vectors returned by rule1, rule2, rule3 and boundPosition in the
      \* last update, and v1..v3 as scaled by the variation multipliers
      rules |-> NoForces,
      steer |-> NoForces ]

\* the test of _isInFieldOfView on the displacement found in the scratch
\* vector
inFieldOfView(this, temp) ==
    LET angleBetween == angleBetweenVectors(this.velocity, temp)
    IN  angleBetween > -this.leftSideFOV /\ angleBetween < this.rightSideFOV

\* isInFieldOfView with the direction taken from the other boid to this one
isInFieldOfViewReversed(this, otherBoid) ==
    inFieldOfView(this, Vector2D(this.position.x - otherBoid.position.x,
                                 this.position.y - otherBoid.position.y))

\* _isInFieldOfView run without interruption: the scratch vector is written
\* and read at once
isInFieldOfView(this, otherBoid) ==
    inFieldOfView(this, Vector2D(otherBoid.position.x - this.position.x,
                                 otherBoid.position.y - this.position.y))

\* the loop of findNeighborsWithinRange over flock[k..], acc = the boid so far
RECURSIVE FindLoop(_, _, _, _)
FindLoop(F, i, k, acc) ==
    IF k > Len(F) THEN acc
    ELSE IF k = i THEN FindLoop(F, i, k + 1, acc)
    ELSE LET distance == distance2D(acc.position, F[k].position)
         IN  IF distance <= acc.range
             THEN FindLoop(F, i, k + 1,
                    [acc EXCEPT
                       !.neighborDistances = MapSet(@, k, distance),
                       !.neighbors = IF isInFieldOfView(acc, F[k])
                                     THEN @ \cup {k} ELSE @])
             ELSE FindLoop(F, i, k + 1, acc)

\* findNeighborsWithinRange without the two clear() calls
findNeighborsKeepingStale(F, i) == FindLoop(F, i, 1, F[i])

findNeighborsWithinRange(F, i) ==
    FindLoop(F, i, 1,
             [F[i] EXCEPT !.neighborDistances = EmptyMap, !.neighbors = {}])

\* for (const boid of this.neighbors): the sum of get[boid] over the set,
\* visited in insertion order (the order of the flock)
RECURSIVE SumLoop(_, _, _)
SumLoop(get, nbrs, k) ==
    IF k > Len(get) THEN Zero
    ELSE IF k \in nbrs THEN add(get[k], SumLoop(get, nbrs, k + 1))
    ELSE SumLoop(get, nbrs, k + 1)

\* rule1 that takes only a coefficient of exactly 0 as disabled
rule1DisabledAtZeroOnly(this, F) ==
    IF this.cohereCoefficient = 0 \/ this.neighbors = {} THEN Zero
    ELSE LET Pos == [k \in 1..Len(F) |-> F[k].position]
             pc  == scale(SumLoop(Pos, this.neighbors, 1), 1,
                          Cardinality(this.neighbors))
         IN  scale(Vector2D(Div(pc.x - this.position.x, COHESION_FACTOR),
                            Div(pc.y - this.position.y, COHESION_FACTOR)),
                   this.cohereCoefficient, Scale)

\* rule1 that averages over the distance cache instead of the neighbor set
rule1OverCache(this, F) ==
    IF this.cohereCoefficient <= 0 \/ this.neighbors = {} THEN Zero
    ELSE LET Pos == [k \in 1..Len(F) |-> F[k].position]
             pc  == scale(SumLoop(Pos, DOMAIN this.neighborDistances, 1), 1,
                          Cardinality(DOMAIN this.neighborDistances))
         IN  scale(Vector2D(Div(pc.x - this.position.x, COHESION_FACTOR),
                            Div(pc.y - this.position.y, COHESION_FACTOR)),
                   this.cohereCoefficient, Scale)

rule1(this, F) ==
    IF this.cohereCoefficient <= 0 THEN Zero
    ELSE LET Pos    == [k \in 1..Len(F) |-> F[k].position]
             pcJ    == SumLoop(Pos, this.neighbors, 1)
             count  == Cardinality(this.neighbors)
         IN  IF count = 0 THEN Zero
             ELSE LET pc == scale(pcJ, 1, count)
                      cohesionForce ==
                          Vector2D(Div(pc.x - this.position.x, COHESION_FACTOR),
                                   Div(pc.y - this.position.y, COHESION_FACTOR))
                  IN  scale(cohesionForce, this.cohereCoefficient, Scale)

\* rule2 that divides the sum by the number of neighbors
rule2Averaged(this, F) ==
    IF this.separationCoefficient <= 0 \/ this.neighbors = {} THEN Zero
    ELSE LET Repel == [k \in 1..Len(F) |->
                         IF /\ k \in DOMAIN this.neighborDistances
                            /\ this.neighborDistances[k] > 0
                            /\ this.neighborDistances[k] < SEPARATION_DISTANCE
                         THEN scale(subtract(this.position, F[k].position),
                                    SEPARATION_DISTANCE - this.neighborDistances[k],
                                    SEPARATION_DISTANCE)
                         ELSE Zero]
         IN  scale(scale(SumLoop(Repel, this.neighbors, 1), 1,
                         Cardinality(this.neighbors)),
                   this.separationCoefficient, Scale)

rule2(this, F) ==
    IF this.separationCoefficient <= 0 THEN Zero
    ELSE LET RepelOf(k) ==
                 LET distance == IF k \in DOMAIN this.neighborDistances
                                 THEN this.neighborDistances[k] ELSE 0
                 IN  IF distance = 0 THEN Zero
                     ELSE IF distance < SEPARATION_DISTANCE /\ distance > 0
                     THEN LET displacement ==
                                  Vector2D(F[k].position.x - this.position.x,
                                           F[k].position.y - this.position.y)
                          IN  subtract(Zero,
                                scale(displacement,
                                      SEPARATION_DISTANCE - distance,
                                      SEPARATION_DISTANCE))
                     ELSE Zero
             Repel == [k \in 1..Len(F) |-> RepelOf(k)]
             c == SumLoop(Repel, this.neighbors, 1)
         IN  scale(c, this.separationCoefficient, Scale)

\* rule3 without the early return for an empty neighbor set
rule3MeanOfNone(this, F) ==
    IF this.alignCoefficient <= 0 THEN Zero
    ELSE LET Vel == [k \in 1..Len(F) |-> F[k].velocity]
             pv  == scale(SumLoop(Vel, this.neighbors, 1), 1,
                          Max(1, Cardinality(this.neighbors)))
         IN  scale(Vector2D(Div(pv.x - this.velocity.x, ALIGNMENT_FACTOR),
                            Div(pv.y - this.velocity.y, ALIGNMENT_FACTOR)),
                   this.alignCoefficient, Scale)

\* rule3 that averages over every other boid of the flock
rule3OverFlock(this, F) ==
    IF this.alignCoefficient <= 0 \/ this.neighbors = {} THEN Zero
    ELSE LET Vel    == [k \in 1..Len(F) |-> F[k].velocity]
             others == { k \in 1..Len(F) : F[k].id # this.id }
             pv     == scale(SumLoop(Vel, others, 1), 1, Cardinality(others))
         IN  scale(Vector2D(Div(pv.x - this.velocity.x, ALIGNMENT_FACTOR),
                            Div(pv.y - this.velocity.y, ALIGNMENT_FACTOR)),
                   this.alignCoefficient, Scale)

rule3(this, F) ==
    IF this.alignCoefficient <= 0 THEN Zero
    ELSE LET Vel    == [k \in 1..Len(F) |-> F[k].velocity]
             pvJ    == SumLoop(Vel, this.neighbors, 1)
             count  == Cardinality(this.neighbors)
         IN  IF count = 0 THEN Zero
             ELSE LET pv == scale(pvJ, 1, count)
                      alignmentForce ==
                          Vector2D(Div(pv.x - this.velocity.x, ALIGNMENT_FACTOR),
                                   Div(pv.y - this.velocity.y, ALIGNMENT_FACTOR))
                  IN  scale(alignmentForce, this.alignCoefficient, Scale)

limitVelocity(this) ==
    LET vlim == this.maxSpeed
        mag  == magnitude(this.velocity)
        capped == IF mag > vlim THEN scale(this.velocity, vlim, mag)
                  ELSE this.velocity
    IN  [this EXCEPT !.velocity =
            IF mag < MIN_SPEED /\ mag > 0 THEN scale(capped, MIN_SPEED, mag)
            ELSE capped]

\* one edge of boundPosition: maxForce * (1 - dist / margin)^2
\* the force of an edge without the test dist < margin
EdgeForceUnguarded(dist, margin, maxForce) ==
    Div(maxForce * Div((Scale - Div(dist * Scale, margin))
                         * (Scale - Div(dist * Scale, margin)), Scale), Scale)

\* the force of an edge with linear instead of quadratic easing
EdgeForceLinear(dist, margin, maxForce) ==
    IF dist < margin
    THEN Div(maxForce * (Scale - Div(dist * Scale, margin)), Scale)
    ELSE 0

EdgeForce(dist, margin, maxForce) ==
    IF dist < margin
    THEN LET f == Scale - Div(dist * Scale, margin)
         IN  Div(maxForce * Div(f * f, Scale), Scale)
    ELSE 0

boundPosition(this) ==
    LET margin   == Min(100 * Scale, Max(30 * Scale, Div(this.range, 2)))
        maxForce == Max(Scale \div 2, Div(this.maxSpeed, 4))
        distLeft   == this.position.x
        distRight  == CANVAS_WIDTH - this.position.x
        distTop    == this.position.y
        distBottom == CANVAS_HEIGHT - this.position.y
    IN  Vector2D(EdgeForce(distLeft, margin, maxForce)
                   - EdgeForce(distRight, margin, maxForce),
                 EdgeForce(distTop, margin, maxForce)
                   - EdgeForce(distBottom, margin, maxForce))

\* 16 x (PI - x) / (5 PI^2 - 4 x (PI - x)): the sine of x in [0, PI]
Arc(x) ==
    Min(Scale, Div(16 * x * (PI - x), Div(5 * PI * PI - 4 * x * (PI - x), Scale)))

\* Math.sin(a)
Sin(a) ==
    IF (a % (2 * PI)) <= PI THEN Arc(a % (2 * PI))
    ELSE -Arc((a % (2 * PI)) - PI)

Cos(a) == Sin(a + PI \div 2)

\* the multiplier without the constant part 1 - amp
MultiplierWithoutFloor(wave) ==
    IF variationEnabled THEN Div(variationAmplitude * wave, Scale) ELSE Scale

\* the multiplier without the test of Boid.variationEnabled
MultiplierAlwaysVarying(wave) ==
    (Scale - variationAmplitude) + Div(variationAmplitude * wave, Scale)

\* (1 - amp) + amp * wave when variation is enabled, else 1
Multiplier(wave) ==
    IF variationEnabled
    THEN (Scale - variationAmplitude) + Div(variationAmplitude * wave, Scale)
    ELSE Scale

\* 2 PI freq t + phase + offset, t = now - creationTime (now, creationTime in ms)
WaveArg(this, now, offset) ==
    Div(Div(2 * PI * (IF variationFrequency # 0 THEN variationFrequency
                      ELSE FREQUENCY), Scale)
          * (now - this.creationTime), 1000)
      + this.variationPhase + offset

\* the waves, normalised to 0..1
sepWave(this, now) == Div(Sin(WaveArg(this, now, Div(PI * 4, 10))) + Scale, 2)
cohWave(this, now) == Div(Cos(WaveArg(this, now, Div(PI * 12, 10))) + Scale, 2)
aliWave(this, now) == Div(Sin(WaveArg(this, now, Div(PI * 20, 10))) + Scale, 2)

sepMultiplier(this, now) == Multiplier(sepWave(this, now))
cohMultiplier(this, now) == Multiplier(cohWave(this, now))
aliMultiplier(this, now) == Multiplier(aliWave(this, now))

\* v1, v2, v3 = rule1, rule2, rule3 and v4 = boundPosition
Rules(this, F) ==
    [v1 |-> rule1(this, F), v2 |-> rule2(this, F), v3 |-> rule3(this, F),
     v4 |-> boundPosition(this)]

\* v1.scale(cohMultiplier); v2.scale(sepMultiplier); v3.scale(aliMultiplier)
Modulate(this, r, now) ==
    [v1 |-> scale(r.v1, cohMultiplier(this, now), Scale),
     v2 |-> scale(r.v2, sepMultiplier(this, now), Scale),
     v3 |-> scale(r.v3, aliMultiplier(this, now), Scale),
     v4 |-> r.v4]

\* Move without the time step: position = position + velocity
MoveIgnoringDeltaT(this, deltaT) ==
    [this EXCEPT !.position = add(@, this.velocity)]

\* position = position + velocity * deltaT
Move(this, deltaT) ==
    [this EXCEPT !.position =
        add(@, Vector2D(Div(this.velocity.x * deltaT, Scale),
                        Div(this.velocity.y * deltaT, Scale)))]

\* velocity.add(v1..v4); limitVelocity(); then the position update
\* Integrate that advances the position before the speed clamp
IntegrateMoveFirst(this, r, s, deltaT) ==
    limitVelocity(Move([this EXCEPT
        !.velocity = add(add(add(add(@, s.v1), s.v2), s.v3), s.v4),
        !.rules = r, !.steer = s], deltaT))

Integrate(this, r, s, deltaT) ==
    Move(limitVelocity([this EXCEPT
            !.velocity = add(add(add(add(@, s.v1), s.v2), s.v3), s.v4),
            !.rules = r,
            !.steer = s]),
         deltaT)

Steer(this, r, deltaT, now) == Integrate(this, r, Modulate(this, r, now), deltaT)

Updated(this, F, deltaT, now) == Steer(this, Rules(this, F), deltaT, now)

\* update(flock, deltaT) of flock[i]; now is its performance.now() reading (ms)
update(F, i, deltaT, now) ==
    Updated(findNeighborsWithinRange(F, i), F, deltaT, now)

setFOVAngle(this, angleInRadians) ==
    LET half == Div(Max(0, Min(PI * 2, angleInRadians)), 2)
    IN  [this EXCEPT !.leftSideFOV = half, !.rightSideFOV = half]

(***************************************************************************)
(* Inputs: the values Math.random(), the clock and the UI controls supply. *)
(***************************************************************************)
InitPositions ==
    { Vector2D(100 * Scale, 100 * Scale), Vector2D(103 * Scale, 100 * Scale) }
InitVelocities ==
    { Vector2D(Div(24 * Scale, 10), 0), Vector2D(Div(18 * Scale, 10), Div(3 * Scale, 10)) }
Phases == { 0, PI \div 2 }
FrameDeltas == { 0, 20, 600 }
ClockLags == { 0 }
RangeValues == { 3 * Scale, 100 * Scale }
FOVDegrees == { 0, 180, 360 }
Percents == { -50, 0, 200 }
SpeedValues == { 1 * Scale, 5 * Scale }
MinSpeedValues == { 2 * Scale }
FrequencyValues == { 0, 2 * Scale }
AmplitudeValues == { 0, Scale \div 2 }
ResetPositions ==
    { Vector2D(102 * Scale, 100 * Scale), Vector2D(200 * Scale, 100 * Scale),
      Vector2D(0, 100 * Scale) }

ResetVelocities ==
    { Vector2D(Div(3 * Scale, 4), 0), Vector2D(-2 * Scale, 0) }

(***************************************************************************)
(* main.js                                                                 *)
(***************************************************************************)
\* init(): NUM_BOIDS boids are constructed and appended to the flock
Init ==
    /\ \E n \in 0..MaxBoids :
         \E ps \in [1..n -> InitPositions], vs \in [1..n -> InitVelocities],
            ph \in [1..n -> Phases] :
            flock = [i \in 1..n |-> Boid(i - 1, ps[i], vs[i], ph[i], 0)]
    /\ variationEnabled = TRUE
    /\ variationFrequency = FREQUENCY
    /\ variationAmplitude = AMPLITUDE
    /\ isPaused = FALSE
    /\ lastTimestamp = 0
    /\ uiIsPaused = FALSE
    /\ frame = 0
    /\ uiOps = 0
    /\ lastEvent = "init"
    /\ tempVector = Zero
    /\ scan = <<>>
    /\ clock = 0

\* for (i = 0; i < flock.length; i++) flock[i].update(flock, deltaT)
\* the loop of gameLoop with one distance cache shared by all boids
RECURSIVE UpdateLoopSharedCache(_, _, _, _)
UpdateLoopSharedCache(F, i, deltaT, now) ==
    IF i > Len(F) THEN F
    ELSE UpdateLoopSharedCache(
           [j \in 1..Len(F) |->
              IF j = i THEN update(F, i, deltaT, now)
              ELSE [F[j] EXCEPT !.neighborDistances =
                                   update(F, i, deltaT, now).neighborDistances]],
           i + 1, deltaT, now)

RECURSIVE UpdateLoop(_, _, _, _)
UpdateLoop(F, i, deltaT, now) ==
    IF i > Len(F) THEN F
    ELSE UpdateLoop([F EXCEPT ![i] = update(F, i, deltaT, now)], i + 1, deltaT, now)

DeltaT(timestamp, last) == Min((timestamp - last) * TIME_SCALE, MAX_DELTA_T)

\* Boid._tempVector after the loop: the last displacement _isInFieldOfView
\* has written, F the flock before and G the flock after the loop
RECURSIVE LastScratch(_, _, _, _)
LastScratch(F, G, i, temp) ==
    IF i = 0 THEN temp
    ELSE IF DOMAIN G[i].neighborDistances = {} THEN LastScratch(F, G, i - 1, temp)
    ELSE LET k == CHOOSE k \in DOMAIN G[i].neighborDistances :
                     \A j \in DOMAIN G[i].neighborDistances : j <= k
         IN  subtract(IF k < i THEN G[k].position ELSE F[k].position,
                      F[i].position)

\* gameLoop recording the timestamp only on the frames that update the flock
gameLoopTimingTicksOnly(timestamp, now) ==
    /\ frame < MaxFrames
    /\ flock' = IF ~isPaused
                THEN UpdateLoop(flock, 1, DeltaT(timestamp, lastTimestamp), now)
                ELSE flock
    /\ lastTimestamp' = IF ~isPaused THEN timestamp ELSE lastTimestamp
    /\ clock' = timestamp
    /\ frame' = frame + 1
    /\ lastEvent' = IF isPaused THEN "paused" ELSE "tick"
    /\ tempVector' = IF ~isPaused
                     THEN LastScratch(flock, flock', Len(flock), tempVector)
                     ELSE tempVector
    /\ UNCHANGED <<variationEnabled, variationFrequency, variationAmplitude,
                   isPaused, uiIsPaused, uiOps, scan>>

\* gameLoop without the test of isPaused: every frame updates the flock
gameLoopIgnoringPause(timestamp, now) ==
    /\ frame < MaxFrames
    /\ flock' = UpdateLoop(flock, 1, DeltaT(timestamp, lastTimestamp), now)
    /\ lastTimestamp' = timestamp
    /\ clock' = timestamp
    /\ frame' = frame + 1
    /\ lastEvent' = IF isPaused THEN "paused" ELSE "tick"
    /\ tempVector' = LastScratch(flock, flock', Len(flock), tempVector)
    /\ UNCHANGED <<variationEnabled, variationFrequency, variationAmplitude,
                   isPaused, uiIsPaused, uiOps, scan>>

gameLoop(timestamp, now) ==
    /\ frame < MaxFrames
    /\ flock' = IF ~isPaused
                THEN UpdateLoop(flock, 1, DeltaT(timestamp, lastTimestamp), now)
                ELSE flock
    /\ lastTimestamp' = timestamp
    /\ clock' = timestamp
    /\ frame' = frame + 1
    /\ lastEvent' = IF isPaused THEN "paused" ELSE "tick"
    /\ tempVector' = IF ~isPaused
                     THEN LastScratch(flock, flock', Len(flock), tempVector)
                     ELSE tempVector
    /\ UNCHANGED <<variationEnabled, variationFrequency, variationAmplitude,
                   isPaused, uiIsPaused, uiOps, scan>>

Frame ==
    \E d \in FrameDeltas, lag \in ClockLags :
        gameLoop(clock + d, clock + d + lag)

(***************************************************************************)
(* UIController (ui.js): the handlers that write into the simulation.      *)
(***************************************************************************)
UIEvent == uiOps < MaxUIOps /\ uiOps' = uiOps + 1 /\ lastEvent' = "ui"

SetRange ==
    /\ UIEvent
    /\ \E value \in RangeValues :
         flock' = [i \in 1..Len(flock) |->
                     [flock[i] EXCEPT !.range = value]]
    /\ UNCHANGED <<variationEnabled, variationFrequency, variationAmplitude,
                   isPaused, lastTimestamp, uiIsPaused, frame,
                   tempVector, scan, clock>>

SetFOVAngle ==
    /\ UIEvent
    /\ \E value \in FOVDegrees :
         flock' = [i \in 1..Len(flock) |->
                     setFOVAngle(flock[i], Div(value * PI, 180))]
    /\ UNCHANGED <<variationEnabled, variationFrequency, variationAmplitude,
                   isPaused, lastTimestamp, uiIsPaused, frame,
                   tempVector, scan, clock>>

SetSeparation ==
    /\ UIEvent
    /\ \E value \in Percents :
         flock' = [i \in 1..Len(flock) |->
                     [flock[i] EXCEPT !.separationCoefficient = Div(value * Scale, 100)]]
    /\ UNCHANGED <<variationEnabled, variationFrequency, variationAmplitude,
                   isPaused, lastTimestamp, uiIsPaused, frame,
                   tempVector, scan, clock>>

SetCohesion ==
    /\ UIEvent
    /\ \E value \in Percents :
         flock' = [i \in 1..Len(flock) |->
                     [flock[i] EXCEPT !.cohereCoefficient = Div(value * Scale, 100)]]
    /\ UNCHANGED <<variationEnabled, variationFrequency, variationAmplitude,
                   isPaused, lastTimestamp, uiIsPaused, frame,
                   tempVector, scan, clock>>

SetAlignment ==
    /\ UIEvent
    /\ \E value \in Percents :
         flock' = [i \in 1..Len(flock) |->
                     [flock[i] EXCEPT !.alignCoefficient = Div(value * Scale, 100)]]
    /\ UNCHANGED <<variationEnabled, variationFrequency, variationAmplitude,
                   isPaused, lastTimestamp, uiIsPaused, frame,
                   tempVector, scan, clock>>

SetMaxSpeed ==
    /\ UIEvent
    /\ \E value \in SpeedValues :
         flock' = [i \in 1..Len(flock) |->
                     [flock[i] EXCEPT !.maxSpeed = value]]
    /\ UNCHANGED <<variationEnabled, variationFrequency, variationAmplitude,
                   isPaused, lastTimestamp, uiIsPaused, frame,
                   tempVector, scan, clock>>

SetVariationEnabled ==
    /\ UIEvent
    /\ \E checked \in BOOLEAN : variationEnabled' = checked
    /\ UNCHANGED <<flock, variationFrequency, variationAmplitude,
                   isPaused, lastTimestamp, uiIsPaused, frame,
                   tempVector, scan, clock>>

SetVariationFrequency ==
    /\ UIEvent
    /\ \E value \in FrequencyValues : variationFrequency' = value
    /\ UNCHANGED <<flock, variationEnabled, variationAmplitude,
                   isPaused, lastTimestamp, uiIsPaused, frame,
                   tempVector, scan, clock>>

SetVariationAmplitude ==
    /\ UIEvent
    /\ \E value \in AmplitudeValues : variationAmplitude' = value
    /\ UNCHANGED <<flock, variationEnabled, variationFrequency,
                   isPaused, lastTimestamp, uiIsPaused, frame,
                   tempVector, scan, clock>>

\* The Min Speed control (README: 0.1 to Max Speed): setupParameterControls
\* registers no listener for it, Boid has no minimum-speed field and
\* limitVelocity reads the module constant DEFAULT_SETTINGS.MIN_SPEED, so
\* moving the control is an event that changes nothing in the simulation.
SetMinSpeed ==
    /\ uiOps < MaxUIOps
    /\ uiOps' = uiOps + 1
    /\ \E value \in MinSpeedValues : lastEvent' = "minSpeed"
    /\ UNCHANGED <<flock, variationEnabled, variationFrequency,
                   variationAmplitude, isPaused, lastTimestamp, uiIsPaused,
                   frame, tempVector, scan, clock>>

\* resetSimulation re-creating the boids instead of re-randomising them:
\* the new boids are numbered on from the old ones
resetSimulationRecreating ==
    /\ UIEvent
    /\ \E ps \in [1..Len(flock) -> ResetPositions],
          vs \in [1..Len(flock) -> ResetVelocities] :
         flock' = [i \in 1..Len(flock) |->
                     [flock[i] EXCEPT !.id = Len(flock) + i - 1,
                                      !.position = ps[i], !.velocity = vs[i],
                                      !.neighbors = {},
                                      !.neighborDistances = EmptyMap]]
    /\ UNCHANGED <<variationEnabled, variationFrequency, variationAmplitude,
                   isPaused, lastTimestamp, uiIsPaused, frame,
                   tempVector, scan, clock>>

\* resetSimulation without the two clear() calls
resetSimulationKeepingNeighbors ==
    /\ UIEvent
    /\ \E ps \in [1..Len(flock) -> ResetPositions],
          vs \in [1..Len(flock) -> ResetVelocities] :
         flock' = [i \in 1..Len(flock) |->
                     [flock[i] EXCEPT !.position = ps[i], !.velocity = vs[i]]]
    /\ UNCHANGED <<variationEnabled, variationFrequency, variationAmplitude,
                   isPaused, lastTimestamp, uiIsPaused, frame,
                   tempVector, scan, clock>>

resetSimulation ==
    /\ UIEvent
    /\ \E ps \in [1..Len(flock) -> ResetPositions],
          vs \in [1..Len(flock) -> ResetVelocities] :
         flock' = [i \in 1..Len(flock) |->
                     [flock[i] EXCEPT !.position = ps[i], !.velocity = vs[i],
                                      !.neighbors = {},
                                      !.neighborDistances = EmptyMap]]
    /\ UNCHANGED <<variationEnabled, variationFrequency, variationAmplitude,
                   isPaused, lastTimestamp, uiIsPaused, frame,
                   tempVector, scan, clock>>

\* togglePause that flips the controller's flag without dispatching
\* simulation-pause-toggle
togglePauseWithoutDispatch ==
    /\ uiIsPaused' = ~uiIsPaused
    /\ lastEvent' = "ui"
    /\ UNCHANGED <<flock, variationEnabled, variationFrequency,
                   variationAmplitude, isPaused, lastTimestamp, frame, uiOps,
                   tempVector, scan, clock>>

\* togglePause dispatches simulation-pause-toggle; main.js's listener copies
\* the flag.  It flips two booleans and so needs no budget of its own: it is
\* enabled in every state, any number of times.
togglePause ==
    /\ uiIsPaused' = ~uiIsPaused
    /\ isPaused' = uiIsPaused'
    /\ lastEvent' = "ui"
    /\ UNCHANGED <<flock, variationEnabled, variationFrequency,
                   variationAmplitude, lastTimestamp, frame, uiOps,
                   tempVector, scan, clock>>

Next ==
    \/ Frame
    \/ SetRange
    \/ SetFOVAngle
    \/ SetSeparation
    \/ SetCohesion
    \/ SetAlignment
    \/ SetMaxSpeed
    \/ SetMinSpeed
    \/ SetVariationEnabled
    \/ SetVariationFrequency
    \/ SetVariationAmplitude
    \/ resetSimulation
    \/ togglePause

Spec == Init /\ [][Next]_vars

(***************************************************************************)
(* The frame loop alone, on a flock of MaxBoids + 1 boids whose            *)
(* coefficients and field of view have been set from the UI.               *)
(***************************************************************************)
CrowdPositions ==
    { Vector2D(100 * Scale, 100 * Scale), Vector2D(103 * Scale, 100 * Scale),
      Vector2D(160 * Scale, 100 * Scale) }
CrowdFOVDegrees == { 180, 360 }
CrowdPercents == { 100, 200 }

InitCrowd ==
    /\ \E ps \in [1..(MaxBoids + 1) -> CrowdPositions],
          vs \in [1..(MaxBoids + 1) -> InitVelocities],
          fov \in CrowdFOVDegrees, pct \in CrowdPercents :
          flock = [i \in 1..(MaxBoids + 1) |->
                     [setFOVAngle(Boid(i - 1, ps[i], vs[i], 0, 0),
                                  Div(fov * PI, 180))
                        EXCEPT !.separationCoefficient = Div(pct * Scale, 100),
                               !.cohereCoefficient = Div(pct * Scale, 100),
                               !.alignCoefficient = Div(pct * Scale, 100)]]
    /\ variationEnabled \in BOOLEAN
    /\ variationFrequency = FREQUENCY
    /\ variationAmplitude = AMPLITUDE
    /\ isPaused = FALSE
    /\ lastTimestamp = 0
    /\ uiIsPaused = FALSE
    /\ frame = 0
    /\ uiOps = MaxUIOps
    /\ lastEvent = "ui"
    /\ tempVector = Zero
    /\ scan = <<>>
    /\ clock = 0

SpecCrowd == InitCrowd /\ [][Frame]_vars

(***************************************************************************)
(* The frame loop alone on MaxBoids + 1 boids at distinct positions away   *)
(* from the edges, cohesion the only rule in force: the separation and     *)
(* alignment sliders are at 0 and the variation switch is off.             *)
(***************************************************************************)
CohesionPositions ==
    { Vector2D(100 * Scale, 100 * Scale), Vector2D(103 * Scale, 100 * Scale),
      Vector2D(100 * Scale, 104 * Scale) }

InitCohesion ==
    /\ \E ps \in [1..(MaxBoids + 1) -> CohesionPositions],
          vs \in [1..(MaxBoids + 1) -> InitVelocities],
          pct \in CrowdPercents :
          /\ \A i, j \in 1..(MaxBoids + 1) : ps[i] = ps[j] => i = j
          /\ flock = [i \in 1..(MaxBoids + 1) |->
                        [Boid(i - 1, ps[i], vs[i], 0, 0)
                           EXCEPT !.separationCoefficient = 0,
                                  !.cohereCoefficient = Div(pct * Scale, 100),
                                  !.alignCoefficient = 0]]
    /\ variationEnabled = FALSE
    /\ variationFrequency = FREQUENCY
    /\ variationAmplitude = AMPLITUDE
    /\ isPaused = FALSE
    /\ lastTimestamp = 0
    /\ uiIsPaused = FALSE
    /\ frame = 0
    /\ uiOps = MaxUIOps
    /\ lastEvent = "ui"
    /\ tempVector = Zero
    /\ scan = <<>>
    /\ clock = 0

SpecCohesion == InitCohesion /\ [][Frame]_vars

(***************************************************************************)
(* findNeighborsWithinRange run by all boids at once on a flock at rest,   *)
(* one statement group at a time: scan[a].k is the boid that boid a is     *)
(* examining (0 before the two clear() calls, Len(flock) + 1 when done)    *)
(* and scan[a].written tells that a has put the displacement into          *)
(* Boid._tempVector and not yet read it back.                              *)
(***************************************************************************)
InitScan ==
    /\ \E ps \in [1..MaxBoids -> InitPositions],
          vs \in [1..MaxBoids -> InitVelocities],
          fov \in CrowdFOVDegrees :
          flock = [i \in 1..MaxBoids |->
                     setFOVAngle(Boid(i - 1, ps[i], vs[i], 0, 0),
                                 Div(fov * PI, 180))]
    /\ variationEnabled = TRUE
    /\ variationFrequency = FREQUENCY
    /\ variationAmplitude = AMPLITUDE
    /\ isPaused = FALSE
    /\ lastTimestamp = 0
    /\ uiIsPaused = FALSE
    /\ frame = 0
    /\ uiOps = MaxUIOps
    /\ lastEvent = "scan"
    /\ tempVector = Zero
    /\ scan = [a \in 1..MaxBoids |-> [k |-> 0, written |-> FALSE]]
    /\ clock = 0

\* the next boid of the for loop that is not boid a itself
NextTarget(a, k) == IF k + 1 = a THEN k + 2 ELSE k + 1

ScanUnchanged ==
    UNCHANGED <<variationEnabled, variationFrequency, variationAmplitude,
                isPaused, lastTimestamp, uiIsPaused, frame, uiOps, lastEvent,
                clock>>

\* this.neighborDistances.clear(); this.neighbors.clear()
ScanStart(a) ==
    /\ scan[a].k = 0
    /\ flock' = [flock EXCEPT ![a].neighborDistances = EmptyMap,
                              ![a].neighbors = {}]
    /\ scan' = [scan EXCEPT ![a].k = NextTarget(a, 0)]
    /\ UNCHANGED tempVector
    /\ ScanUnchanged

\* the distance test, the cache entry and the two writes of _isInFieldOfView
ScanWrite(a) ==
    /\ scan[a].k \in 1..Len(flock)
    /\ ~scan[a].written
    /\ LET k == scan[a].k
           distance == distance2D(flock[a].position, flock[k].position)
       IN  IF distance <= flock[a].range
           THEN /\ flock' = [flock EXCEPT ![a].neighborDistances =
                                             MapSet(@, k, distance)]
                /\ tempVector' = Vector2D(flock[k].position.x - flock[a].position.x,
                                          flock[k].position.y - flock[a].position.y)
                /\ scan' = [scan EXCEPT ![a].written = TRUE]
           ELSE /\ scan' = [scan EXCEPT ![a].k = NextTarget(a, k)]
                /\ UNCHANGED <<flock, tempVector>>
    /\ ScanUnchanged

\* the angle test of _isInFieldOfView on Boid._tempVector and neighbors.add
ScanRead(a) ==
    /\ scan[a].k \in 1..Len(flock)
    /\ scan[a].written
    /\ flock' = [flock EXCEPT ![a].neighbors =
                    IF inFieldOfView(flock[a], tempVector)
                    THEN @ \cup {scan[a].k} ELSE @]
    /\ scan' = [scan EXCEPT ![a] = [k |-> NextTarget(a, scan[a].k),
                                    written |-> FALSE]]
    /\ UNCHANGED tempVector
    /\ ScanUnchanged

Start == \E a \in DOMAIN scan : ScanStart(a)
Write == \E a \in DOMAIN scan : ScanWrite(a)
Read == \E a \in DOMAIN scan : ScanRead(a)

NextScan == Start \/ Write \/ Read

SpecScan == InitScan /\ [][NextScan]_vars

(***************************************************************************)
(* Vocabulary of the properties.                                           *)
(***************************************************************************)
\* a step in which gameLoop ran the update loop over the flock
TickStep == frame' = frame + 1 /\ lastEvent' = "tick"

\* the deltaT of that step
StepDeltaT == DeltaT(lastTimestamp', lastTimestamp)

\* the flock as flock[i].update reads it during that step: the boids before
\* it in the array have already been updated, the others not yet
Reads(i) == [j \in 1..Len(flock) |-> IF j < i THEN flock'[j] ELSE flock[j]]

\* rounding allowance of a rescaled speed
SpeedTol == Scale \div 200

SpeedWithin(v, lo, hi) ==
    lo - SpeedTol <= magnitude(v) /\ magnitude(v) <= hi + SpeedTol

(***************************************************************************)
(* C1 (simultaneous update): in a tick every boid is updated from the      *)
(* flock as it stood at the end of the previous tick, so each boid's new   *)
(* state is update() of the pre-tick flock.                                *)
(***************************************************************************)
C1_SimultaneousUpdate ==
    [][TickStep =>
         \A i \in 1..Len(flock) : \E lag \in ClockLags :
            flock'[i] = update(flock, i, StepDeltaT, lastTimestamp' + lag)]_vars

(***************************************************************************)
(* C2 (speed bound): a boid whose speed is nonzero before a tick has a     *)
(* speed in [MIN_SPEED, maxSpeed] after it.                                *)
(***************************************************************************)
C2_SpeedBound ==
    [][TickStep =>
         \A i \in 1..Len(flock) :
            flock[i].velocity # Zero =>
               SpeedWithin(flock'[i].velocity, MIN_SPEED, flock[i].maxSpeed)]_vars

(***************************************************************************)
(* C3 (non-positive deltaT): a tick with deltaT <= 0 changes no boid's     *)
(* position or velocity.                                                   *)
(***************************************************************************)
C3_NonPositiveDeltaTNoOp ==
    [][TickStep /\ StepDeltaT <= 0 =>
         \A i \in 1..Len(flock) :
            /\ flock'[i].position = flock[i].position
            /\ flock'[i].velocity = flock[i].velocity]_vars

(***************************************************************************)
(* C4 (deltaT = 0): a tick with deltaT = 0 leaves every position unchanged *)
(* (the velocity may change).                                              *)
(***************************************************************************)
C4_ZeroDeltaTKeepsPositions ==
    [][TickStep /\ StepDeltaT = 0 =>
         \A i \in 1..Len(flock) : flock'[i].position = flock[i].position]_vars

\* a tick with deltaT = 0 has changed a velocity by a nonzero force: no
\* timestamp was ever above 0 and no parameter has been changed
C4_Witness ==
    /\ lastEvent = "tick" /\ lastTimestamp = 0 /\ uiOps = 0
    /\ \E i \in 1..Len(flock) :
          flock[i].steer # NoForces /\ flock[i].velocity \notin InitVelocities

(***************************************************************************)
(* C5 (exact neighbor membership): after a boid's neighbor phase its       *)
(* distance cache holds exactly the other boids within its range           *)
(* (inclusive), each with its distance, and its neighbor set exactly the   *)
(* cached boids whose signed angle from its velocity lies strictly between *)
(* -leftSideFOV and rightSideFOV; nothing older survives and the order of  *)
(* the flock plays no part.                                                *)
(***************************************************************************)
SignedAngle(A, B) ==
    angleBetweenVectors(A.velocity, subtract(B.position, A.position))

ExpectedCache(R, i) ==
    { b \in (1..Len(R)) \ {i} :
        distance2D(R[i].position, R[b].position) <= R[i].range }

ExpectedNeighbors(R, i) ==
    { b \in ExpectedCache(R, i) :
        /\ SignedAngle(R[i], R[b]) > -R[i].leftSideFOV
        /\ SignedAngle(R[i], R[b]) < R[i].rightSideFOV }

Cross(v, w) == v.x * w.y - v.y * w.x
Dot(v, w) == v.x * w.x + v.y * w.y

DirectlyAway(A, B) ==
    /\ Cross(A.velocity, subtract(B.position, A.position)) = 0
    /\ Dot(A.velocity, subtract(B.position, A.position)) < 0

DirectlyToward(B, A) ==
    /\ Cross(B.velocity, subtract(A.position, B.position)) = 0
    /\ Dot(B.velocity, subtract(A.position, B.position)) > 0

HalfAnglesBelowPI(A) == A.leftSideFOV < PI /\ A.rightSideFOV < PI
HalfAnglesPositive(A) == A.leftSideFOV > 0 /\ A.rightSideFOV > 0

AwayToward(R, a, b) ==
    /\ distance2D(R[a].position, R[b].position) <= R[a].range
    /\ distance2D(R[a].position, R[b].position) <= R[b].range
    /\ HalfAnglesBelowPI(R[a]) /\ HalfAnglesBelowPI(R[b])
    /\ DirectlyAway(R[a], R[b])
    /\ DirectlyToward(R[b], R[a])

\* C6 as claimed: with half-angles below PI, after the tick B's neighbor set
\* contains A and A's does not contain B
C6_AsymmetryBelowPI ==
    [][TickStep =>
         \A a, b \in 1..Len(flock) :
            (a # b /\ AwayToward(Reads(a), a, b) /\ AwayToward(Reads(b), a, b))
               => (a \in flock'[b].neighbors /\ b \notin flock'[a].neighbors)]_vars

\* C6 as amended: the same with half-angles strictly between 0 and PI
C6_AsymmetryBetween0AndPI ==
    [][TickStep =>
         \A a, b \in 1..Len(flock) :
            (/\ a # b
             /\ AwayToward(Reads(a), a, b) /\ AwayToward(Reads(b), a, b)
             /\ HalfAnglesPositive(flock[a]) /\ HalfAnglesPositive(flock[b]))
               => (a \in flock'[b].neighbors /\ b \notin flock'[a].neighbors)]_vars

\* after a tick, A flies directly away from B, B directly toward A, B has A
\* as a neighbor and A has B only in its distance cache
C6_Witness ==
    /\ lastEvent = "tick"
    /\ \E a, b \in 1..Len(flock) :
          /\ a # b
          /\ b \in DOMAIN flock[a].neighborDistances
          /\ HalfAnglesBelowPI(flock[a]) /\ HalfAnglesBelowPI(flock[b])
          /\ HalfAnglesPositive(flock[a]) /\ HalfAnglesPositive(flock[b])
          /\ DirectlyAway(flock[a], flock[b])
          /\ DirectlyToward(flock[b], flock[a])
          /\ a \in flock[b].neighbors
          /\ b \notin flock[a].neighbors

(***************************************************************************)
(* C7 (disabled rules): a rule whose coefficient is <= 0 returns the zero  *)
(* vector in every tick, whatever the neighbors, and adds nothing to the   *)
(* velocity.                                                               *)
(***************************************************************************)
C7_DisabledRules ==
    [][TickStep =>
         \A i \in 1..Len(flock) :
            /\ flock[i].cohereCoefficient <= 0
                  => flock'[i].rules.v1 = Zero /\ flock'[i].steer.v1 = Zero
            /\ flock[i].separationCoefficient <= 0
                  => flock'[i].rules.v2 = Zero /\ flock'[i].steer.v2 = Zero
            /\ flock[i].alignCoefficient <= 0
                  => flock'[i].rules.v3 = Zero /\ flock'[i].steer.v3 = Zero]_vars

\* a tick has run with a negative separation coefficient for a boid that has
\* a neighbor closer than SEPARATION_DISTANCE
C7_Witness ==
    /\ lastEvent = "tick"
    /\ \E i \in 1..Len(flock) :
          /\ flock[i].separationCoefficient < 0
          /\ flock[i].rules.v2 = Zero
          /\ \E b \in flock[i].neighbors :
                /\ flock[i].neighborDistances[b] > 0
                /\ flock[i].neighborDistances[b] < SEPARATION_DISTANCE
                /\ flock[b].position # flock[i].position

(***************************************************************************)
(* C8 (degenerate populations): with an empty neighbor set the three rules *)
(* return the zero vector; a tick leaves the empty flock unchanged; the    *)
(* velocity of the only boid of a flock changes by the boundary force and  *)
(* the speed clamp alone.                                                  *)
(***************************************************************************)
C8_DegeneratePopulations ==
    [][TickStep =>
         /\ \A i \in 1..Len(flock) :
               flock'[i].neighbors = {}
                  => /\ flock'[i].rules.v1 = Zero
                     /\ flock'[i].rules.v2 = Zero
                     /\ flock'[i].rules.v3 = Zero
         /\ Len(flock) = 0 => flock' = flock
         /\ Len(flock) = 1 =>
               /\ flock'[1].neighbors = {}
               /\ flock'[1].velocity =
                     limitVelocity([flock[1] EXCEPT
                        !.velocity = add(@, boundPosition(flock[1]))]).velocity]_vars

\* a tick has run on a one-boid flock whose boid is pushed by the boundary
C8_Witness ==
    /\ lastEvent = "tick"
    /\ Len(flock) = 1
    /\ flock[1].rules.v4 # Zero
    /\ flock[1].rules.v1 = Zero /\ flock[1].rules.v2 = Zero /\ flock[1].rules.v3 = Zero

(***************************************************************************)
(* C9 (separation monotonicity): for one neighbor in a fixed direction, at *)
(* distance d1 < d2 < SEPARATION_DISTANCE, the separation force at d1 is   *)
(* at least as large as at d2.                                             *)
(***************************************************************************)
ProbeDirections ==
    { Vector2D(1, 0), Vector2D(0, 1), Vector2D(-1, 0), Vector2D(0, -1) }
ProbeDistances == { (k * Scale) \div 2 : k \in 1..9 }

\* rule2 of the boid with a single neighbor at distance d in direction dir
SeparationAt(this, dir, d) ==
    rule2([this EXCEPT !.neighbors = {2}, !.neighborDistances = MapSet(EmptyMap, 2, d)],
          <<this, [this EXCEPT !.position =
                      add(@, Vector2D(dir.x * d, dir.y * d))]>>)

C9_SeparationMonotone ==
    \A i \in 1..Len(flock) : \A dir \in ProbeDirections :
       \A d1, d2 \in ProbeDistances :
          (d1 < d2 /\ d2 < SEPARATION_DISTANCE)
             => magnitude(SeparationAt(flock[i], dir, d1))
                   >= magnitude(SeparationAt(flock[i], dir, d2))

(***************************************************************************)
(* C10 (separation rule): with coefficient c > 0 the separation force is   *)
(* c times the sum, over the neighbors n with cached distance d,           *)
(* 0 < d < SEPARATION_DISTANCE, of                                         *)
(* -(n.position - position) (SEPARATION_DISTANCE - d) / SEPARATION_DISTANCE;*)
(* the other neighbors add nothing and the sum is not averaged.            *)
(***************************************************************************)
RECURSIVE VectorSum(_, _)
VectorSum(f, S) ==
    IF S = {} THEN Zero
    ELSE LET n == CHOOSE n \in S : TRUE
         IN  add(f[n], VectorSum(f, S \ {n}))

ExpectedSeparation(R, position, nbrs, dist, c) ==
    LET close == { n \in nbrs : dist[n] > 0 /\ dist[n] < SEPARATION_DISTANCE }
        term  == [n \in close |->
                    scale(subtract(position, R[n].position),
                          SEPARATION_DISTANCE - dist[n], SEPARATION_DISTANCE)]
    IN  scale(VectorSum(term, close), c, Scale)

C10_SeparationRule ==
    [][TickStep =>
         \A i \in 1..Len(flock) :
            flock[i].separationCoefficient > 0 =>
               flock'[i].rules.v2 =
                  ExpectedSeparation(Reads(i), flock[i].position,
                                     flock'[i].neighbors,
                                     flock'[i].neighborDistances,
                                     flock[i].separationCoefficient)]_vars

\* a tick in which a boid is repelled by two neighbors at once
C10_Witness ==
    /\ lastEvent = "tick"
    /\ \E i \in 1..Len(flock) :
          /\ flock[i].separationCoefficient > 0
          /\ flock[i].rules.v2 # Zero
          /\ Cardinality({ n \in flock[i].neighbors :
                             /\ flock[i].neighborDistances[n] > 0
                             /\ flock[i].neighborDistances[n] < SEPARATION_DISTANCE })
                >= 2

(***************************************************************************)
(* C11 (cohesion rule): with coefficient c > 0 and a non-empty neighbor    *)
(* set the cohesion force is                                               *)
(* c (mean of the neighbors' positions - position) / COHESION_FACTOR, the  *)
(* mean taken over the neighbor set the field of view has filtered, not    *)
(* over the flock or the distance cache.                                   *)
(***************************************************************************)
MeanOver(f, S) == scale(VectorSum(f, S), 1, Cardinality(S))

ExpectedCohesion(R, position, nbrs, c) ==
    LET mean == MeanOver([n \in nbrs |-> R[n].position], nbrs)
    IN  scale(Vector2D(Div(mean.x - position.x, COHESION_FACTOR),
                       Div(mean.y - position.y, COHESION_FACTOR)),
              c, Scale)

C11_CohesionRule ==
    [][TickStep =>
         \A i \in 1..Len(flock) :
            (flock[i].cohereCoefficient > 0 /\ flock'[i].neighbors # {}) =>
               flock'[i].rules.v1 =
                  ExpectedCohesion(Reads(i), flock[i].position,
                                   flock'[i].neighbors,
                                   flock[i].cohereCoefficient)]_vars

\* a tick in which a boid coheres with a neighbor set smaller than its
\* distance cache
C11_Witness ==
    /\ lastEvent = "tick"
    /\ \E i \in 1..Len(flock) :
          /\ flock[i].cohereCoefficient > 0
          /\ flock[i].neighbors # {}
          /\ flock[i].neighbors # DOMAIN flock[i].neighborDistances
          /\ flock[i].rules.v1 # Zero

(***************************************************************************)
(* C12 (alignment rule): with coefficient c > 0 and a non-empty neighbor   *)
(* set the alignment force is                                              *)
(* c (mean of the neighbors' velocities - velocity) / ALIGNMENT_FACTOR,    *)
(* the mean taken over the neighbor set and velocity being the boid's      *)
(* velocity before the forces of this tick are added.                      *)
(***************************************************************************)
ExpectedAlignment(R, velocity, nbrs, c) ==
    LET mean == MeanOver([n \in nbrs |-> R[n].velocity], nbrs)
    IN  scale(Vector2D(Div(mean.x - velocity.x, ALIGNMENT_FACTOR),
                       Div(mean.y - velocity.y, ALIGNMENT_FACTOR)),
              c, Scale)

C12_AlignmentRule ==
    [][TickStep =>
         \A i \in 1..Len(flock) :
            (flock[i].alignCoefficient > 0 /\ flock'[i].neighbors # {}) =>
               flock'[i].rules.v3 =
                  ExpectedAlignment(Reads(i), flock[i].velocity,
                                    flock'[i].neighbors,
                                    flock[i].alignCoefficient)]_vars

\* a tick in which a boid aligns with two neighbors and its velocity changes
C12_Witness ==
    /\ lastEvent = "tick"
    /\ \E i \in 1..Len(flock) :
          /\ flock[i].alignCoefficient > 0
          /\ Cardinality(flock[i].neighbors) >= 2
          /\ flock[i].rules.v3 # Zero
          /\ flock[i].steer # NoForces

(***************************************************************************)
(* C13 (no boundary force away from the edges): a boid whose distance to   *)
(* each of the four edges of the world is at least the margin gets exactly *)
(* the zero boundary vector, and so does a boid at the centre of the       *)
(* world.                                                                  *)
(***************************************************************************)
MarginOf(this) == Min(100 * Scale, Max(30 * Scale, Div(this.range, 2)))
MaxForceOf(this) == Max(Scale \div 2, Div(this.maxSpeed, 4))
EdgeDistances(this) ==
    [left |-> this.position.x, right |-> CANVAS_WIDTH - this.position.x,
     top |-> this.position.y, bottom |-> CANVAS_HEIGHT - this.position.y]
Centre == Vector2D(CANVAS_WIDTH \div 2, CANVAS_HEIGHT \div 2)

AwayFromEdges(this) ==
    /\ EdgeDistances(this).left >= MarginOf(this)
    /\ EdgeDistances(this).right >= MarginOf(this)
    /\ EdgeDistances(this).top >= MarginOf(this)
    /\ EdgeDistances(this).bottom >= MarginOf(this)

C13_NoBoundaryForceInside ==
    [][TickStep =>
         \A i \in 1..Len(flock) :
            (AwayFromEdges(flock[i]) \/ flock[i].position = Centre)
               => flock'[i].rules.v4 = Zero /\ flock'[i].steer.v4 = Zero]_vars

\* a tick of time step 0 on a boid at the centre of the world that is steered
\* by its neighbor and not by the boundary
C13_Witness ==
    /\ lastEvent = "tick"
    /\ \E i \in 1..Len(flock) :
          /\ flock[i].position = Centre
          /\ flock[i].rules.v4 = Zero
          /\ flock[i].steer # NoForces

(***************************************************************************)
(* C14 (boundary push-back): every edge nearer than the margin pushes the  *)
(* boid into the world along its axis with                                 *)
(* maxForce (1 - distance / margin)^2, the edges adding up per axis; a     *)
(* boid at (0, height / 2) is pushed in the positive x direction, and no   *)
(* edge pushes a boid inside the world with more than maxForce.            *)
(***************************************************************************)
Push(d, margin, maxForce) ==
    IF d < margin
    THEN Div(maxForce * Div((Scale - Div(d * Scale, margin))
                              * (Scale - Div(d * Scale, margin)), Scale), Scale)
    ELSE 0

PushOf(this, edge) == Push(EdgeDistances(this)[edge], MarginOf(this), MaxForceOf(this))

InsideWorld(this) ==
    /\ this.position.x >= 0 /\ this.position.x <= CANVAS_WIDTH
    /\ this.position.y >= 0 /\ this.position.y <= CANVAS_HEIGHT

C14_BoundaryPushBack ==
    [][TickStep =>
         \A i \in 1..Len(flock) :
            /\ flock'[i].rules.v4 =
                  Vector2D(PushOf(flock[i], "left") - PushOf(flock[i], "right"),
                           PushOf(flock[i], "top") - PushOf(flock[i], "bottom"))
            /\ flock'[i].steer.v4 = flock'[i].rules.v4
            /\ \A edge \in {"left", "right", "top", "bottom"} :
                  /\ PushOf(flock[i], edge) >= 0
                  /\ InsideWorld(flock[i]) => PushOf(flock[i], edge) <= MaxForceOf(flock[i])
            /\ flock[i].position = Vector2D(0, CANVAS_HEIGHT \div 2)
                  => flock'[i].rules.v4.x > 0]_vars

\* a tick of time step 0 on a boid at (0, height / 2) that is pushed to the
\* right
C14_Witness ==
    /\ lastEvent = "tick"
    /\ \E i \in 1..Len(flock) :
          /\ flock[i].position = Vector2D(0, CANVAS_HEIGHT \div 2)
          /\ flock[i].rules.v4.x > 0
          /\ flock[i].rules.v4.y = 0

(***************************************************************************)
(* C15 (variation multiplier): the factor on each of the cohesion,         *)
(* separation and alignment forces is exactly 1 when variation is disabled *)
(* and when the amplitude is 0; with variation enabled and an amplitude a  *)
(* in [0, 1] it is (1 - a) + a w for a wave value w in [0, 1], so it lies  *)
(* in [1 - a, 1]; the boundary force is never scaled.                      *)
(***************************************************************************)
MultiplierAsStated(m, w) ==
    /\ (~variationEnabled \/ variationAmplitude = 0) => m = Scale
    /\ (variationEnabled /\ variationAmplitude >= 0 /\ variationAmplitude <= Scale)
          => /\ w >= 0 /\ w <= Scale
             /\ m = (Scale - variationAmplitude) + Div(variationAmplitude * w, Scale)
             /\ m >= Scale - variationAmplitude /\ m <= Scale

C15_VariationMultiplier ==
    [][TickStep =>
         \A i \in 1..Len(flock) : \E lag \in ClockLags :
            /\ MultiplierAsStated(cohMultiplier(flock[i], lastTimestamp' + lag),
                                  cohWave(flock[i], lastTimestamp' + lag))
            /\ MultiplierAsStated(sepMultiplier(flock[i], lastTimestamp' + lag),
                                  sepWave(flock[i], lastTimestamp' + lag))
            /\ MultiplierAsStated(aliMultiplier(flock[i], lastTimestamp' + lag),
                                  aliWave(flock[i], lastTimestamp' + lag))
            /\ flock'[i].steer.v1 =
                  scale(flock'[i].rules.v1,
                        cohMultiplier(flock[i], lastTimestamp' + lag), Scale)
            /\ flock'[i].steer.v2 =
                  scale(flock'[i].rules.v2,
                        sepMultiplier(flock[i], lastTimestamp' + lag), Scale)
            /\ flock'[i].steer.v3 =
                  scale(flock'[i].rules.v3,
                        aliMultiplier(flock[i], lastTimestamp' + lag), Scale)
            /\ flock'[i].steer.v4 = flock'[i].rules.v4
            /\ (~variationEnabled \/ variationAmplitude = 0)
                  => flock'[i].steer = flock'[i].rules]_vars

\* a tick with variation enabled at amplitude 1/2 that has weakened a
\* separation force without removing it
C15_Witness ==
    /\ lastEvent = "tick"
    /\ variationEnabled
    /\ variationAmplitude = Scale \div 2
    /\ \E i \in 1..Len(flock) :
          /\ flock[i].steer.v2 # flock[i].rules.v2
          /\ flock[i].steer.v2 # Zero

(***************************************************************************)
(* C16 (integration order): in a tick the new velocity of a boid is the    *)
(* speed-clamped sum of its old velocity and the cohesion, separation,     *)
(* alignment and boundary forces, and its new position is the old position *)
(* plus the new, clamped velocity times the time step.                     *)
(***************************************************************************)
ForceSum(s) == add(add(add(s.v1, s.v2), s.v3), s.v4)

C16_IntegrationOrder ==
    [][TickStep =>
         \A i \in 1..Len(flock) :
            /\ flock'[i].velocity =
                  limitVelocity([flock[i] EXCEPT
                     !.velocity = add(@, ForceSum(flock'[i].steer))]).velocity
            /\ flock'[i].position =
                  Vector2D(flock[i].position.x
                             + Div(flock'[i].velocity.x * StepDeltaT, Scale),
                           flock[i].position.y
                             + Div(flock'[i].velocity.y * StepDeltaT, Scale))]_vars

\* the first tick, of a positive time step, has moved a boid whose speed the
\* clamp has cut to its maximum
C16_Witness ==
    /\ lastEvent = "tick" /\ frame = 1 /\ uiOps = 0 /\ lastTimestamp > 0
    /\ \E i \in 1..Len(flock) :
          /\ flock[i].position \notin InitPositions
          /\ flock[i].velocity \notin InitVelocities
          /\ magnitude(add(flock[i].velocity,
                           subtract(Zero, ForceSum(flock[i].steer)))) > 0
          /\ magnitude(flock[i].velocity) >= flock[i].maxSpeed - SpeedTol
          /\ magnitude(flock[i].velocity) <= flock[i].maxSpeed + SpeedTol
          /\ flock[i].velocity.y # 0

(***************************************************************************)
(* C17 (the update of a boid changes that boid alone): after a tick every  *)
(* boid is what its own update made of it, given the flock as it was when  *)
(* its turn came; the updates of the other boids have changed neither its  *)
(* position, velocity, neighbor set, distance cache nor its configuration. *)
(***************************************************************************)
Configuration(this) ==
    <<this.id, this.maxSpeed, this.range, this.leftSideFOV, this.rightSideFOV,
      this.separationCoefficient, this.cohereCoefficient, this.alignCoefficient,
      this.variationPhase, this.creationTime>>

C17_UpdateChangesOnlyItsBoid ==
    [][TickStep =>
         /\ Len(flock') = Len(flock)
         /\ \A j \in 1..Len(flock) :
               /\ \E lag \in ClockLags :
                     flock'[j] = update(Reads(j), j, StepDeltaT, lastTimestamp' + lag)
               /\ Configuration(flock'[j]) = Configuration(flock[j])]_vars

\* a tick has updated two boids that are neighbors of each other
C17_Witness ==
    /\ lastEvent = "tick"
    /\ \E a, b \in 1..Len(flock) :
          /\ a < b
          /\ b \in flock[a].neighbors /\ a \in flock[b].neighbors
          /\ flock[a].neighborDistances # flock[b].neighborDistances
          /\ flock[a].steer # NoForces /\ flock[b].steer # NoForces

(***************************************************************************)
(* C18 (interleavable force computation): whatever the interleaving of the *)
(* boids' neighbor computations, a boid that has finished has the neighbor *)
(* set and the distance cache it gets when it computes alone; no boid has  *)
(* read from the class-level scratch vector what another boid wrote.       *)
(***************************************************************************)
C18_InterleavingSafe ==
    \A a \in DOMAIN scan :
       scan[a].k > Len(flock) =>
          /\ flock[a].neighbors = findNeighborsWithinRange(flock, a).neighbors
          /\ flock[a].neighborDistances
                = findNeighborsWithinRange(flock, a).neighborDistances

(***************************************************************************)
(* C19 (normalize): normalizing a vector of magnitude 0 gives the zero     *)
(* vector, never NaN or Infinity; normalizing another vector gives a       *)
(* vector of magnitude 1 in the same direction.  Stated for the velocities *)
(* of the boids.                                                           *)
(***************************************************************************)
UnitTol == Scale \div 100

C19_NormalizeTotal ==
    \A i \in 1..Len(flock) :
       /\ magnitude(flock[i].velocity) = 0 => normalize(flock[i].velocity) = Zero
       /\ magnitude(flock[i].velocity) > 0 =>
             /\ normalize(flock[i].velocity) # NaNVector
             /\ Abs(magnitude(normalize(flock[i].velocity)) - Scale) <= UnitTol
             /\ Dot(normalize(flock[i].velocity), flock[i].velocity) > 0
             /\ Abs(Cross(normalize(flock[i].velocity), flock[i].velocity))
                   <= UnitTol * magnitude(flock[i].velocity)

(***************************************************************************)
(* C20 (field-of-view half-angles): in every reachable state, from         *)
(* construction on and after any setFOVAngle, the left and right           *)
(* half-angles of every boid lie in [0, PI] and are equal.                 *)
(***************************************************************************)
C20_FOVHalfAngles ==
    \A i \in 1..Len(flock) :
       /\ flock[i].leftSideFOV >= 0 /\ flock[i].leftSideFOV <= PI
       /\ flock[i].rightSideFOV >= 0 /\ flock[i].rightSideFOV <= PI
       /\ flock[i].leftSideFOV = flock[i].rightSideFOV

(***************************************************************************)
(* C21 (360 degrees is full surround): after setFOVAngle(2 PI) every other *)
(* boid within range is a neighbor whatever its bearing, also exactly      *)
(* behind the boid and for a boid of velocity zero; after setFOVAngle(0)   *)
(* the neighbor set is empty.                                              *)
(***************************************************************************)
C21_FullSurround ==
    [][TickStep =>
         \A i \in 1..Len(flock) :
            /\ flock[i] = setFOVAngle(flock[i], 2 * PI)
                  => flock'[i].neighbors = DOMAIN flock'[i].neighborDistances
            /\ flock[i] = setFOVAngle(flock[i], 0)
                  => flock'[i].neighbors = {}]_vars

(***************************************************************************)
(* C22 (fixed population): the ids of the flock are pairwise distinct in   *)
(* every reachable state, and no step (frame, paused frame, pause toggle,  *)
(* reset or parameter change) adds, removes, replaces or reorders a boid:  *)
(* the flock keeps its length and every index keeps its id.                *)
(***************************************************************************)
Ids(F) == [i \in 1..Len(F) |-> F[i].id]

DistinctIds(F) == \A i, j \in 1..Len(F) : F[i].id = F[j].id => i = j

C22_FixedPopulation ==
    /\ [](DistinctIds(flock))
    /\ [][Len(flock') = Len(flock) /\ Ids(flock') = Ids(flock)]_vars

\* a full flock ticked after a UI event, one boid flying leftwards
C22_Witness ==
    /\ Len(flock) = MaxBoids
    /\ lastEvent = "tick" /\ uiOps = MaxUIOps /\ ~isPaused
    /\ \E i \in 1..Len(flock) : flock[i].velocity.x < 0

(***************************************************************************)
(* C23 (live reconfiguration): a value set from the UI between two ticks   *)
(* is in force in the very next tick; for the minimum speed: after it has  *)
(* been set to m, every boid that moves at the end of the next tick is no  *)
(* slower than m.                                                          *)
(***************************************************************************)
C23_LiveReconfiguration ==
    [][TickStep /\ lastEvent = "minSpeed" =>
         \A i \in 1..Len(flock), m \in MinSpeedValues :
            flock'[i].velocity # Zero =>
               magnitude(flock'[i].velocity) >= m - SpeedTol]_vars

(***************************************************************************)
(* C24 (determinism): with variation disabled, the flock a tick produces   *)
(* depends only on the positions, velocities and configuration of the      *)
(* boids, their order and deltaT: whatever the clock reads and whatever    *)
(* the creation times and random phases of the boids are, the same tick    *)
(* from the same flock gives the same flock.                               *)
(***************************************************************************)
ClockReadings == { 400, 650, 1400 }
CreationTimes == { 0, 400 }

\* the flock F with other creation times and random phases
Retimed(F, ph, ct) ==
    [i \in 1..Len(F) |->
       [F[i] EXCEPT !.variationPhase = ph[i], !.creationTime = ct[i]]]

C24_Determinism ==
    [][TickStep /\ ~variationEnabled =>
         \A now \in ClockReadings :
            \A ph \in [1..Len(flock) -> Phases],
               ct \in [1..Len(flock) -> CreationTimes] :
               UpdateLoop(Retimed(flock, ph, ct), 1, StepDeltaT, now)
                  = Retimed(flock', ph, ct)]_vars

\* a tick with variation disabled has applied a nonzero cohesion and a
\* nonzero separation force to a boid
C24_Witness ==
    /\ lastEvent = "tick" /\ ~variationEnabled
    /\ \E i \in 1..Len(flock) :
          flock[i].steer.v1 # Zero /\ flock[i].steer.v2 # Zero

(***************************************************************************)
(* C25 (cohesion convergence): in a tick on three boids at distinct        *)
(* positions, all farther than the margin from every edge and all          *)
(* neighbors of one another, with the separation and alignment             *)
(* coefficients 0 and variation disabled, the positional spread (the sum   *)
(* of the squared distances of the boids to their centroid) does not       *)
(* increase.                                                               *)
(***************************************************************************)
\* positions in hundredths of a pixel, to keep the squares small
Coarse(v) == Vector2D(Div(v.x, 10), Div(v.y, 10))

Centroid(F) ==
    Vector2D(Div(Coarse(F[1].position).x + Coarse(F[2].position).x
                   + Coarse(F[3].position).x, 3),
             Div(Coarse(F[1].position).y + Coarse(F[2].position).y
                   + Coarse(F[3].position).y, 3))

SquaredDistance(v, w) == (v.x - w.x) * (v.x - w.x) + (v.y - w.y) * (v.y - w.y)

Spread(F) ==
    SquaredDistance(Coarse(F[1].position), Centroid(F))
      + SquaredDistance(Coarse(F[2].position), Centroid(F))
      + SquaredDistance(Coarse(F[3].position), Centroid(F))

\* rounding allowance of a spread: the square of a tenth of a pixel
SpreadTol == Scale \div 10

CohesionOnly(F) ==
    /\ ~variationEnabled
    /\ \A i \in 1..Len(F) :
          /\ F[i].separationCoefficient = 0 /\ F[i].alignCoefficient = 0
          /\ F[i].cohereCoefficient > 0
          /\ AwayFromEdges(F[i])
    /\ \A i, j \in 1..Len(F) : F[i].position = F[j].position => i = j

C25_CohesionConvergence ==
    [][(/\ TickStep
        /\ Len(flock) = 3
        /\ CohesionOnly(flock)
        /\ \A i \in 1..3 : flock'[i].neighbors = (1..3) \ {i})
          => Spread(flock') <= Spread(flock) + SpreadTol]_vars

(***************************************************************************)
(* C26 (pause freezes), as amended: a frame that runs while the loop's     *)
(* paused flag is set changes no boid at all, and between a pause and the  *)
(* resume the position, velocity, neighbor set and distance cache of a     *)
(* boid change only through resetSimulation, which works while paused.     *)
(***************************************************************************)
\* a step during which the loop's paused flag stays set
PausedStep == isPaused /\ isPaused'

\* the transient state of every boid is the same in F and G
Frozen(F, G) ==
    /\ Len(G) = Len(F)
    /\ \A i \in 1..Len(F) :
          /\ G[i].position = F[i].position
          /\ G[i].velocity = F[i].velocity
          /\ G[i].neighbors = F[i].neighbors
          /\ G[i].neighborDistances = F[i].neighborDistances

\* the step has the form of a resetSimulation: a UI event that gives every
\* boid a position and a velocity and empties its neighbor set and cache
ResetStep ==
    /\ uiOps' = uiOps + 1 /\ frame' = frame
    /\ flock' = [i \in 1..Len(flock) |->
                   [flock[i] EXCEPT !.position = flock'[i].position,
                                    !.velocity = flock'[i].velocity,
                                    !.neighbors = {},
                                    !.neighborDistances = EmptyMap]]

C26_PausedFramesFreeze ==
    [][PausedStep =>
         IF frame' = frame + 1
         THEN flock' = flock /\ lastEvent' = "paused"
         ELSE Frozen(flock, flock') \/ ResetStep]_vars

\* a frame has run while paused, after a tick that gave a boid a neighbor
C26_Witness ==
    /\ lastEvent = "paused" /\ isPaused
    /\ \E i \in 1..Len(flock) : flock[i].neighbors # {}

(***************************************************************************)
(* C26 as stated: once a paused frame has run, the position, velocity,     *)
(* neighbor set and distance cache of every boid stay as they are for as   *)
(* long as the paused flag stays set.                                      *)
(***************************************************************************)
C26_PauseFreezes ==
    [][lastEvent = "paused" /\ PausedStep => Frozen(flock, flock')]_vars

(***************************************************************************)
(* C27 (time step): every frame, paused or not, records its timestamp as   *)
(* the previous timestamp; in a tick every boid is updated with the same   *)
(* deltaT = min((timestamp - timestamp of the frame before) * TIME_SCALE,  *)
(* 50), which is never above 50, so the first tick after a resume uses     *)
(* the interval of one frame and not the time spent paused.                *)
(***************************************************************************)
\* the time step of one frame interval
FrameIntervalDeltaT == Min((clock' - clock) * TIME_SCALE, 50 * Scale)

C27_TimeStep ==
    /\ [][frame' = frame + 1 => lastTimestamp' = clock']_vars
    /\ [][TickStep =>
            /\ FrameIntervalDeltaT <= 50 * Scale
            /\ \A i \in 1..Len(flock) : \E lag \in ClockLags :
                  flock'[i] = update(Reads(i), i, FrameIntervalDeltaT,
                                     clock' + lag)]_vars

\* a lone boid flying at 2.4 was paused for one frame of 600 ms, resumed, and
\* has moved by deltaT = 2 in the frame 20 ms later
C27_Witness ==
    /\ lastEvent = "tick" /\ frame = 2 /\ clock = 620
    /\ Len(flock) = 1
    /\ flock[1].position = Vector2D(Div(1048 * Scale, 10), 100 * Scale)

(***************************************************************************)
(* C28 (pause-flag agreement): in every state, and so at the start of      *)
(* every frame, the loop's isPaused equals the controller's isPaused; the  *)
(* two flags change only in a togglePause step, and every togglePause      *)
(* step inverts both, so an even number of toggles restores them.          *)
(***************************************************************************)
\* a step of togglePause: a UI event that is neither a frame nor counted
\* among the parameter changes
ToggleStep ==
    lastEvent' = "ui" /\ uiOps' = uiOps /\ frame' = frame

C28_PauseFlagAgreement ==
    /\ [](isPaused = uiIsPaused)
    /\ [][/\ ToggleStep => isPaused' = ~isPaused /\ uiIsPaused' = ~uiIsPaused
          /\ ~ToggleStep => isPaused' = isPaused /\ uiIsPaused' = uiIsPaused]_vars

\* a lone boid flying at (1.8, 0.3) has sat through a paused frame of 20 ms
\* and, both flags cleared again, has moved in the frame 20 ms later
C28_Witness ==
    /\ lastEvent = "tick" /\ frame = 2 /\ clock = 40
    /\ ~isPaused /\ ~uiIsPaused
    /\ Len(flock) = 1
    /\ flock[1].position = Vector2D(Div(1036 * Scale, 10), Div(1006 * Scale, 10))

(***************************************************************************)
(* C29 (reset changes only transient state): a step outside the frame loop *)
(* that changes a position or a velocity, which only resetSimulation does, *)
(* empties every neighbor set and distance cache and leaves the            *)
(* population, the ids, the coefficients, range, FOV half-angles and       *)
(* maximum speed of every boid, the variation settings and both paused     *)
(* flags unchanged; in the first tick after it every boid's neighbor set   *)
(* and distance cache are computed afresh from the positions it finds.     *)
(***************************************************************************)
\* a step outside the frame loop that moves a boid or changes its velocity
Rerandomised ==
    /\ frame' = frame
    /\ \E i \in 1..Len(flock) :
          \/ flock'[i].position # flock[i].position
          \/ flock'[i].velocity # flock[i].velocity

\* every boid has just been reset: the last event was a UI event and all
\* neighbor sets and caches are empty
JustReset ==
    /\ lastEvent = "ui"
    /\ \A i \in 1..Len(flock) :
          /\ flock[i].position \in ResetPositions
          /\ flock[i].velocity \in ResetVelocities
          /\ flock[i].neighbors = {}
          /\ flock[i].neighborDistances = EmptyMap

C30_WellFormedBetweenTicks ==
    (lastEvent = "init" \/ JustReset) =>
       \A i \in 1..Len(flock) :
          /\ InsideWorld(flock[i])
          /\ SpeedWithin(flock[i].velocity, MIN_SPEED, flock[i].maxSpeed)

====
